---------------------------- MODULE Spec2Model ----------------------------
(***************************************************************************)
(* A model of mochiview2gff.py: main() reads a MochiView annotation file,  *)
(* skips its header line, and for every other line builds a feature_parser *)
(* (the expansion of one gene record into GFF3 features) and prints it.    *)
(*                                                                         *)
(* Text is modelled as a sequence of codepoints, so that concatenation,    *)
(* split, join and percent-escaping are computed as the code computes      *)
(* them.  An absent CDS bound (Python's None) is the empty sequence, a     *)
(* present one the one-element sequence holding the integer.               *)
(***************************************************************************)
EXTENDS Integers, Sequences, FiniteSets, TLC

VARIABLES
    flo,          \* main: the lines of the input file after its header
    line_count,   \* main: the number of lines read so far
    sline,        \* feature_parser.__init__: the parsed record of the last line
    features,     \* self.features of the last feature_parser constructed
    stdout,       \* the features printed so far, in order
    err,          \* "none", or the exception that ended the run
    text,         \* _escape_text: its argument
    escaped       \* _escape_text: its result, <<>> before the call

vars == <<flo, line_count, sline, features, stdout, err, text, escaped>>

---------------------------------------------------------------------------
(* Bounds of the model *)

MaxCoord == 4
MaxExons == 2
MaxTextLen == 3

---------------------------------------------------------------------------
(* Text helpers: Python's str operations on codepoint sequences *)

RECURSIVE Concat(_)
Concat(ss) == IF ss = <<>> THEN <<>> ELSE Head(ss) \o Concat(Tail(ss))

\* sep.join(parts)
RECURSIVE Join(_, _)
Join(sep, parts) ==
    IF parts = <<>> THEN <<>>
    ELSE IF Len(parts) = 1 THEN parts[1]
    ELSE parts[1] \o sep \o Join(sep, Tail(parts))

\* s.split(c) for a one-character separator c, from position i on, with the
\* parts found so far and the part being read
RECURSIVE SplitFrom(_, _, _, _, _)
SplitFrom(s, c, i, parts, part) ==
    IF i > Len(s) THEN Append(parts, part)
    ELSE IF s[i] = c THEN SplitFrom(s, c, i + 1, Append(parts, part), <<>>)
    ELSE SplitFrom(s, c, i + 1, parts, Append(part, s[i]))

\* s.split(c): always at least one part
Split(s, c) == SplitFrom(s, c, 1, <<>>, <<>>)

\* the characters "0123456789abcdef"
HexDigits == <<48, 49, 50, 51, 52, 53, 54, 55, 56, 57, 97, 98, 99, 100, 101, 102>>

\* str(n) for n >= 0
RECURSIVE Str(_)
Str(n) == IF n < 10 THEN <<48 + n>> ELSE Str(n \div 10) \o <<48 + (n % 10)>>

\* hex(n)[2:] for n >= 0: lowercase, no padding
RECURSIVE Hex(_)
Hex(n) == IF n < 16 THEN <<HexDigits[n + 1]>>
          ELSE Hex(n \div 16) \o <<HexDigits[(n % 16) + 1]>>

\* s.zfill(2)
ZFill2(s) == IF Len(s) >= 2 THEN s ELSE [k \in 1..(2 - Len(s)) |-> 48] \o s

Reverse(s) == [k \in 1..Len(s) |-> s[Len(s) + 1 - k]]

\* a dict as the sequence of its <<key, value>> items in insertion order;
\* assigning to a key that is present keeps the key's position
DictSet(d, k, v) ==
    IF \E j \in 1..Len(d) : d[j][1] = k
    THEN [j \in 1..Len(d) |-> IF d[j][1] = k THEN <<k, v>> ELSE d[j]]
    ELSE Append(d, <<k, v>>)

---------------------------------------------------------------------------
(* String literals of the source *)

K_ID == <<73, 68>>                            \* 'ID'
K_Parent == <<80, 97, 114, 101, 110, 116>>    \* 'Parent'
K_Name == <<78, 97, 109, 101>>                \* 'Name'
K_Alias == <<65, 108, 105, 97, 115>>          \* 'Alias'
K_Note == <<78, 111, 116, 101>>               \* 'Note'
Suffix_T == <<45, 84>>                        \* '-T'
Suffix_TE == <<45, 84, 45, 69>>               \* '-T-E'
Suffix_P == <<45, 80>>                        \* '-P'
Suffix_5 == <<45, 53>>                        \* '-5'
Suffix_3 == <<45, 51>>                        \* '-3'
Ch_Pipe == 124                                \* '|'
Ch_Comma == 44                                \* ','
Ch_Semi == 59                                 \* ';'
Ch_Eq == 61                                   \* '='
Ch_Percent == 37                              \* '%'

None == <<>>

---------------------------------------------------------------------------
(* feature_parser._escape_text *)

\* the literal entries of table
TableLiteral ==
    (34 :> <<37, 50, 50>>) @@ (37 :> <<37, 50, 53>>) @@ (38 :> <<37, 50, 54>>) @@
    (39 :> <<37, 50, 55>>) @@ (40 :> <<37, 50, 56>>) @@ (41 :> <<37, 50, 57>>) @@
    (44 :> <<37, 50, 67>>) @@ (59 :> <<37, 51, 66>>) @@ (61 :> <<37, 51, 68>>) @@
    (91 :> <<37, 53, 66>>) @@ (92 :> <<37, 53, 67>>) @@ (93 :> <<37, 53, 68>>) @@
    (127 :> <<37, 55, 70>>)

\* ControlEntry without the zero padding
ControlEntry_NoPad(i) == <<Ch_Percent>> \o Hex(i)

\* table[chr(i)] = '%' + hex(i)[2:].zfill(2), for i in range(33)
ControlEntry(i) == <<Ch_Percent>> \o ZFill2(Hex(i))

\* TableGet with no entry for '%'
TableGet_PercentKept(c) ==
    IF c \in 0..32 THEN ControlEntry(c)
    ELSE IF c \in DOMAIN TableLiteral \ {37} THEN TableLiteral[c]
    ELSE <<c>>

\* table.get(c, c): the control entries are assigned after the literal ones
TableGet(c) ==
    IF c \in 0..32 THEN ControlEntry(c)
    ELSE IF c \in DOMAIN TableLiteral THEN TableLiteral[c]
    ELSE <<c>>

\* ''.join(table.get(c,c) for c in text)
EscapeText(t) == Concat([k \in 1..Len(t) |-> TableGet(t[k])])

---------------------------------------------------------------------------
(* feature_parser._join_attributes *)

JoinAttributes(attributes) ==
    Join(<<Ch_Semi>>,
         [k \in 1..Len(attributes) |->
            attributes[k][1] \o <<Ch_Eq>> \o attributes[k][2]])

---------------------------------------------------------------------------
(* feature_parser.__init__ *)

\* the source column, sys.argv[2]
Source == "source"

\* one output tuple; score is '.' for every feature, and the phase column is
\* held as it prints ('.' or 0)
Feature(line, type, start, end, phase, attributes) ==
    [seqid |-> line.seqName, source |-> Source, type |-> type,
     start |-> start, end |-> end, score |-> ".", strand |-> line.strand,
     phase |-> phase, attributes |-> JoinAttributes(attributes)]

HasCDS(line) == line.cdsStart # None

\* base_attributes
BaseAttributes(line) ==
    IF line.geneName # <<>> THEN <<<<K_Name, line.geneName>>>> ELSE <<>>

\* sorted([sline[CDS_START], sline[CDS_END]]), both integers
SortedCDS(line) ==
    LET a == line.cdsStart[1]
        b == line.cdsEnd[1]
    IN  IF a <= b THEN <<a, b>> ELSE <<b, a>>

s_cds_start(line) == SortedCDS(line)[1]
s_cds_end(line) == SortedCDS(line)[2]

s_exon_starts(line) ==
    IF line.strand = "+" THEN line.exonStarts ELSE Reverse(line.exonEnds)

s_exon_ends(line) ==
    IF line.strand = "+" THEN line.exonEnds ELSE Reverse(line.exonStarts)

\* ','.join(sline[ALIASES].split('|'))
AliasValue(line) == Join(<<Ch_Comma>>, Split(line.aliases, Ch_Pipe))

TranscriptID(line) == line.featureName \o Suffix_T

GeneAttributes(line) ==
    DictSet(DictSet(DictSet(BaseAttributes(line),
        K_ID, line.featureName),
        K_Alias, AliasValue(line)),
        K_Note, EscapeText(line.description))

GeneFeature(line) ==
    Feature(line, "gene", line.start, line.end, ".", GeneAttributes(line))

\* TranscriptType testing CDS_END in place of CDS_START
TranscriptType_OnCDSEnd(line) == IF line.cdsEnd # None THEN "mRNA" ELSE "RNA"

TranscriptType(line) == IF HasCDS(line) THEN "mRNA" ELSE "RNA"

\* TranscriptAttributes with Parent assigned before ID
TranscriptAttributes_ParentFirst(line) ==
    DictSet(DictSet(DictSet(DictSet(BaseAttributes(line),
        K_Parent, line.featureName),
        K_ID, TranscriptID(line)),
        K_Alias, AliasValue(line)),
        K_Note, EscapeText(line.description))

TranscriptAttributes(line) ==
    DictSet(DictSet(DictSet(DictSet(BaseAttributes(line),
        K_ID, TranscriptID(line)),
        K_Parent, line.featureName),
        K_Alias, AliasValue(line)),
        K_Note, EscapeText(line.description))

TranscriptFeature(line) ==
    Feature(line, TranscriptType(line), line.txnStart, line.txnEnd, ".",
            TranscriptAttributes(line))

\* the number in the exon's ID, for the loop index i of range(exonCount)
\* (i counts from 0 as in the source)
ExonNumber(line, i) ==
    IF line.strand = "+" THEN i + 1 ELSE line.exonCount - i

ExonAttributes(line, i) ==
    DictSet(DictSet(BaseAttributes(line),
        K_ID, line.featureName \o Suffix_TE \o Str(ExonNumber(line, i))),
        K_Parent, TranscriptID(line))

ExonFeature(line, i) ==
    Feature(line, "exon", s_exon_starts(line)[i + 1], s_exon_ends(line)[i + 1],
            ".", ExonAttributes(line, i))

\* ExonFeatures with the loop running from the last index down
ExonFeatures_Backwards(line) ==
    [k \in 1..line.exonCount |-> ExonFeature(line, line.exonCount - k)]

ExonFeatures(line) ==
    [k \in 1..line.exonCount |-> ExonFeature(line, k - 1)]

\* CDSAttributes with the gene as Parent
CDSAttributes_GeneParent(line) ==
    DictSet(DictSet(BaseAttributes(line),
        K_ID, line.featureName \o Suffix_P),
        K_Parent, line.featureName)

CDSAttributes(line) ==
    DictSet(DictSet(BaseAttributes(line),
        K_ID, line.featureName \o Suffix_P),
        K_Parent, TranscriptID(line))

SingleExonCDS(line) ==
    Feature(line, "CDS", s_cds_start(line), s_cds_end(line), "0",
            CDSAttributes(line))

\* the overlap test of the multi-exon loop, i from 0
OverlapsCDS(line, i) ==
    /\ s_cds_start(line) < s_exon_ends(line)[i + 1]
    /\ s_exon_starts(line)[i + 1] < s_cds_end(line)

SegmentStart(line, i) ==
    IF /\ s_exon_starts(line)[i + 1] < s_cds_start(line)
       /\ s_cds_start(line) < s_exon_ends(line)[i + 1]
    THEN s_cds_start(line)
    ELSE s_exon_starts(line)[i + 1]

SegmentEnd(line, i) ==
    IF /\ SegmentStart(line, i) < s_cds_end(line)
       /\ s_cds_end(line) < s_exon_ends(line)[i + 1]
    THEN s_cds_end(line)
    ELSE s_exon_ends(line)[i + 1]

SegmentFeature(line, i) ==
    Feature(line, "CDS", SegmentStart(line, i), SegmentEnd(line, i), "0",
            CDSAttributes(line))

\* for i in range(len(sline[EXON_STARTS])): one segment per overlapping exon
MultiExonCDS(line) ==
    LET idx == SelectSeq([k \in 1..Len(line.exonStarts) |-> k - 1],
                         LAMBDA i : OverlapsCDS(line, i))
    IN  [k \in 1..Len(idx) |-> SegmentFeature(line, idx[k])]

CDSFeatures(line) ==
    IF line.exonCount = 1 THEN <<SingleExonCDS(line)>> ELSE MultiExonCDS(line)

UpstreamUTRType(line) ==
    IF line.strand = "+" THEN "five_prime_UTR" ELSE "three_prime_UTR"

UpstreamUTRSuffix(line) == IF line.strand = "+" THEN Suffix_5 ELSE Suffix_3

\* UpstreamUTR ending on the first CDS base
UpstreamUTR_EndOnCDS(line) ==
    IF line.txnStart < s_cds_start(line)
    THEN <<Feature(line, UpstreamUTRType(line), line.txnStart,
                   s_cds_start(line), ".",
                   DictSet(DictSet(BaseAttributes(line),
                       K_ID, line.featureName \o UpstreamUTRSuffix(line)),
                       K_Parent, TranscriptID(line)))>>
    ELSE <<>>

UpstreamUTR(line) ==
    IF line.txnStart < s_cds_start(line)
    THEN <<Feature(line, UpstreamUTRType(line), line.txnStart,
                   s_cds_start(line) - 1, ".",
                   DictSet(DictSet(BaseAttributes(line),
                       K_ID, line.featureName \o UpstreamUTRSuffix(line)),
                       K_Parent, TranscriptID(line)))>>
    ELSE <<>>

DownstreamUTRType(line) ==
    IF line.strand = "+" THEN "three_prime_UTR" ELSE "five_prime_UTR"

DownstreamUTRSuffix(line) == IF line.strand = "+" THEN Suffix_3 ELSE Suffix_5

DownstreamUTR(line) ==
    IF s_cds_end(line) < line.txnEnd
    THEN <<Feature(line, DownstreamUTRType(line), s_cds_end(line) + 1,
                   line.txnEnd, ".",
                   DictSet(DictSet(BaseAttributes(line),
                       K_ID, line.featureName \o DownstreamUTRSuffix(line)),
                       K_Parent, TranscriptID(line)))>>
    ELSE <<>>

\* sorted() of an integer and None raises TypeError
SortRaises(line) == line.cdsStart # None /\ line.cdsEnd = None

\* assert int(EXON_COUNT) == len(EXON_STARTS) == len(EXON_ENDS)
ExonsProperlyDefined(line) ==
    /\ line.exonCount = Len(line.exonStarts)
    /\ Len(line.exonStarts) = Len(line.exonEnds)

\* sline[DESCRIPTION] of a line that ends in an empty DESCRIPTION column:
\* line.rstrip() strips the trailing tab with the newline, split("\t") gives
\* 14 columns and the 15th does not exist
ParseRaises(line) == line.description = <<>>

\* the whole constructor: the exception raised, if any, and self.features as
\* the constructor left it
FeatureParser(line) ==
    IF ParseRaises(line)
    THEN [err |-> "IndexError", features |-> <<>>]
    ELSE IF SortRaises(line)
    THEN [err |-> "TypeError", features |-> <<>>]
    ELSE IF ~ExonsProperlyDefined(line)
    THEN [err |-> "AssertionError",
          features |-> <<GeneFeature(line), TranscriptFeature(line)>>]
    ELSE [err |-> "none",
          features |->
              <<GeneFeature(line), TranscriptFeature(line)>>
              \o ExonFeatures(line)
              \o (IF HasCDS(line)
                  THEN CDSFeatures(line) \o UpstreamUTR(line)
                       \o DownstreamUTR(line)
                  ELSE <<>>)]

---------------------------------------------------------------------------
(* The input: parsed records.  line.rstrip() strips a trailing empty       *)
(* column, so a line that parses has a DESCRIPTION that is not empty.      *)

Coords == 1..MaxCoord

\* n exons as two index-aligned lists, each exon start <= end, sorted
\* ascending by position and not overlapping
AscendingExons(n) ==
    {p \in [1..n -> Coords] \X [1..n -> Coords] :
        /\ \A i \in 1..n : p[1][i] <= p[2][i]
        /\ \A i \in 1..(n - 1) : p[2][i] < p[1][i + 1]}

\* the same exons listed from the highest coordinate down
DescendingExons(n) ==
    {<<Reverse(p[1]), Reverse(p[2])>> : p \in AscendingExons(n)}

ExonLists ==
    UNION {AscendingExons(n) \cup DescendingExons(n) : n \in 1..MaxExons}

OptCoords == {None} \cup {<<c>> : c \in Coords}

FeatureNameText == <<103, 49>>        \* 'g1'

\* GENE_NAME, ALIASES, DESCRIPTION: a blank name with one alias, and a name
\* with two aliases and a description that holds characters to escape
NameChoices ==
    {[geneName |-> <<>>, aliases |-> <<97>>, description |-> <<100>>],
     [geneName |-> <<78>>, aliases |-> <<97, 124, 98>>,
      description |-> <<120, 59, 32, 121>>]}

MakeLine(strand, txnStart, txnEnd, exonCount, exons, cdsStart, cdsEnd, names) ==
    [seqName |-> "chr1", start |-> 1, end |-> MaxCoord, strand |-> strand,
     featureName |-> FeatureNameText,
     txnStart |-> txnStart, txnEnd |-> txnEnd, exonCount |-> exonCount,
     exonStarts |-> exons[1], exonEnds |-> exons[2],
     cdsStart |-> cdsStart, cdsEnd |-> cdsEnd,
     geneName |-> names.geneName, aliases |-> names.aliases,
     description |-> names.description]

\* exon lists as in ExonLists, or with one list lacking its last entry
\* (a list is never empty: int('') does not parse)
UnevenExonLists ==
    {e \in ExonLists
           \cup {<<SubSeq(x[1], 1, Len(x[1]) - 1), x[2]>> : x \in ExonLists}
           \cup {<<x[1], SubSeq(x[2], 1, Len(x[2]) - 1)>> : x \in ExonLists} :
        e[1] # <<>> /\ e[2] # <<>>}

\* an EXON_COUNT and exon lists that disagree
Miscounts ==
    {m \in (1..(MaxExons + 1)) \X UnevenExonLists :
        ~(m[1] = Len(m[2][1]) /\ m[1] = Len(m[2][2]))}

---------------------------------------------------------------------------
(* main *)

\* the first line through the loop: line_count is 0, the header is not parsed
ReadHeader ==
    /\ line_count = 0
    /\ line_count' = 1
    /\ UNCHANGED <<flo, sline, features, stdout, err, text, escaped>>

\* ReadLine going on to the next line after a constructor that raised
ReadLine_SkipsFailed ==
    /\ line_count > 0
    /\ line_count <= Len(flo)
    /\ LET line == flo[line_count]
           f == FeatureParser(line)
       IN  /\ sline' = line
           /\ features' = f.features
           /\ err' = f.err
           /\ stdout' = IF f.err = "none" THEN stdout \o f.features ELSE stdout
           /\ line_count' = line_count + 1
    /\ UNCHANGED <<flo, text, escaped>>

\* a later line: f = feature_parser(line, source); print(f).  An exception
\* of the constructor ends the run before anything of the line is printed.
ReadLine ==
    /\ line_count > 0
    /\ line_count <= Len(flo)
    /\ err = "none"
    /\ LET line == flo[line_count]
           f == FeatureParser(line)
       IN  /\ sline' = line
           /\ features' = f.features
           /\ err' = f.err
           /\ stdout' = IF f.err = "none" THEN stdout \o f.features ELSE stdout
           /\ line_count' = IF f.err = "none" THEN line_count + 1 ELSE line_count
    /\ UNCHANGED <<flo, text, escaped>>

\* the files of one record whose EXON_COUNT agrees with both exon lists
CountedFiles ==
    {<<MakeLine(strand, ts, te, Len(ex[1]), ex, cs, ce, names)>> :
        strand \in {"+", "-"}, ts \in Coords, te \in Coords, ex \in ExonLists,
        cs \in OptCoords, ce \in OptCoords, names \in NameChoices}

\* the files of one record whose EXON_COUNT and exon lists disagree
MiscountedFiles ==
    {<<MakeLine(strand, 1, MaxCoord, m[1], m[2], cs, ce,
                CHOOSE x \in NameChoices : x.geneName = <<>>)>> :
        strand \in {"+", "-"}, m \in Miscounts,
        cs \in OptCoords, ce \in OptCoords}

\* a file of the header and one record
Init ==
    /\ flo \in CountedFiles \cup MiscountedFiles
    /\ line_count = 0
    /\ sline = <<>>
    /\ features = <<>>
    /\ stdout = <<>>
    /\ err = "none"
    /\ text = <<>>
    /\ escaped = <<>>

Next == ReadHeader \/ ReadLine

Spec == Init /\ [][Next]_vars

\* the record of the file has been expanded and printed
Expanded == line_count = 2 /\ err = "none"

\* the record of the file raised
Raised == err # "none"

---------------------------------------------------------------------------
(* main over a file of several records *)

MaxLines == 3

\* the records a file is made of: a coding record of two exons on '+', a
\* non-coding record of one exon on '-', a record whose EXON_COUNT exceeds
\* its exon lists, a record with cdsStart and no cdsEnd, and a record whose
\* DESCRIPTION column is empty
RunRecords ==
    LET plain == CHOOSE x \in NameChoices : x.geneName = <<>>
        named == CHOOSE x \in NameChoices : x.geneName # <<>>
    IN  {MakeLine("+", 1, 4, 2, <<<<1, 3>>, <<2, 4>>>>, <<2>>, <<3>>, named),
         MakeLine("-", 2, 3, 1, <<<<2>>, <<3>>>>, None, None, plain),
         MakeLine("+", 1, 4, 2, <<<<1>>, <<4>>>>, <<1>>, <<4>>, plain),
         MakeLine("-", 1, 4, 1, <<<<1>>, <<4>>>>, <<2>>, None, plain),
         MakeLine("+", 1, 4, 1, <<<<1>>, <<4>>>>, None, None,
                  [plain EXCEPT !.description = <<>>])}

\* the files of the header and up to MaxLines records
RunFiles == UNION {[1..n -> RunRecords] : n \in 0..MaxLines}

InitRun ==
    /\ flo \in RunFiles
    /\ line_count = 0
    /\ sline = <<>>
    /\ features = <<>>
    /\ stdout = <<>>
    /\ err = "none"
    /\ text = <<>>
    /\ escaped = <<>>

SpecRun == InitRun /\ [][Next]_vars

---------------------------------------------------------------------------
(* _escape_text on its own: the argument is drawn from bounded texts *)

MaxCodepoint == 128

\* '%', ',', '2', 'C', 'a'
Alphabet == {37, 44, 50, 67, 97}

Texts ==
    {<<c>> : c \in 0..MaxCodepoint}
    \cup UNION {[1..n -> Alphabet] : n \in 0..MaxTextLen}

CallEscape ==
    /\ escaped = None
    /\ escaped' = <<EscapeText(text)>>
    /\ UNCHANGED <<flo, line_count, sline, features, stdout, err, text>>

InitEscape ==
    /\ flo = <<>>
    /\ line_count = 0
    /\ sline = <<>>
    /\ features = <<>>
    /\ stdout = <<>>
    /\ err = "none"
    /\ text \in Texts
    /\ escaped = None

NextEscape == CallEscape

SpecEscape == InitEscape /\ [][NextEscape]_vars

Escaped == escaped # None

---------------------------------------------------------------------------
(* Reading the output back *)

\* the attributes column as the sequence of its <<key, value>> pairs
ParseAttributes(column) ==
    LET pairs == Split(column, Ch_Semi)
    IN  <<>> \o [k \in 1..Len(pairs) |->
                    LET kv == Split(pairs[k], Ch_Eq)
                    IN  <<kv[1], Join(<<Ch_Eq>>, Tail(kv))>>]

\* the parsed attributes of every feature of a sequence of features
AttributesOf(fs) ==
    <<>> \o [k \in 1..Len(fs) |-> ParseAttributes(fs[k].attributes)]

\* of parsed attributes a: the keys, whether key is one, and the value of key
Keys(a) == <<>> \o [k \in 1..Len(a) |-> a[k][1]]
Has(a, key) == \E k \in 1..Len(a) : a[k][1] = key
Value(a, key) == a[CHOOSE k \in 1..Len(a) : a[k][1] = key][2]

OfType(fs, types) == SelectSeq(fs, LAMBDA f : f.type \in types)

UTRTypes == {"five_prime_UTR", "three_prime_UTR"}

Min(a, b) == IF a <= b THEN a ELSE b
Max(a, b) == IF a <= b THEN b ELSE a

\* the positions start..end of a feature (none when start > end)
Span(f) == f.start..f.end

---------------------------------------------------------------------------
(* The claims about escape *)

\* the characters escape encodes: 0..32, " % & ' ( ) , ; = [ \ ] and DEL
EncodedChars == (0..32) \cup {34, 37, 38, 39, 40, 41, 44, 59, 61, 91, 92, 93, 127}

\* the hex digit of d in 0..15, lowercase or uppercase
HexDigitLower(d) == IF d < 10 THEN 48 + d ELSE 97 + (d - 10)
HexDigitUpper(d) == IF d < 10 THEN 48 + d ELSE 65 + (d - 10)

PercentLower(c) == <<37, HexDigitLower(c \div 16), HexDigitLower(c % 16)>>
PercentUpper(c) == <<37, HexDigitUpper(c \div 16), HexDigitUpper(c % 16)>>

\* C9 as stated: each character of the input is mapped on its own; an
\* encoded character becomes '%' and the two lowercase hex digits of its
\* codepoint, every other character is kept.
C9_EscapeLowercaseHex ==
    Escaped =>
        escaped[1] = Concat([k \in 1..Len(text) |->
                                IF text[k] \in EncodedChars
                                THEN PercentLower(text[k])
                                ELSE <<text[k]>>])

\* C9 amended: as C9, but the hex digits are lowercase only for the control
\* characters 0..32; the literal characters " % & ' ( ) , ; = [ \ ] and DEL
\* get uppercase hex digits (%2C, %3B, %3D, %5B, %5C, %5D, %7F).
C9_EscapeMixedCaseHex ==
    Escaped =>
        escaped[1] = Concat([k \in 1..Len(text) |->
                                IF text[k] \in 0..32
                                THEN PercentLower(text[k])
                                ELSE IF text[k] \in EncodedChars
                                THEN PercentUpper(text[k])
                                ELSE <<text[k]>>])

\* C9's case: a literal character whose code has a hex letter has been escaped
C9_Witness == Escaped /\ text = <<44>> /\ escaped[1] = <<37, 50, 67>>

\* C10: escape returns a text that holds no encoded character unchanged (so
\* escaping it again changes nothing), and no other text of the bounded
\* alphabet has the same escaped form as this one.
C10_EscapeInjective ==
    Escaped =>
        /\ (\A k \in 1..Len(text) : text[k] \notin EncodedChars) =>
               escaped[1] = text /\ EscapeText(escaped[1]) = escaped[1]
        /\ \A t \in Texts : t # text => EscapeText(t) # escaped[1]

\* C10's case: a text of percent, digit and letter that spells the code of
\* another character has been escaped
C10_Witness ==
    Escaped /\ text = <<37, 50, 67>> /\ escaped[1] = <<37, 50, 53, 50, 67>>

---------------------------------------------------------------------------
(* The claims about the untranslated regions *)

\* what C5 reads of a UTR feature
UTRSummary(f) ==
    [type |-> f.type, start |-> f.start, end |-> f.end,
     id |-> Value(ParseAttributes(f.attributes), K_ID)]

---------------------------------------------------------------------------
(* The claims about the attributes column *)

\* the position of a key in a sequence of keys (0 when it is not one of them)
Rank(order, key) ==
    IF \E k \in 1..Len(order) : order[k] = key
    THEN CHOOSE k \in 1..Len(order) : order[k] = key
    ELSE 0

\* keys are keys of order, each once, in the order of order
KeysFollow(keys, order) ==
    /\ \A k \in 1..Len(keys) : Rank(order, keys[k]) > 0
    /\ \A j, k \in 1..Len(keys) :
           j < k => Rank(order, keys[j]) < Rank(order, keys[k])

C8_ParentLinks ==
    Expanded =>
        LET fn == sline.featureName
            fnT == fn \o <<45, 84>>
            attrs == AttributesOf(stdout)
        IN  /\ stdout[1].type = "gene"
            /\ Value(attrs[1], K_ID) = fn
            /\ ~Has(attrs[1], K_Parent)
            /\ stdout[2].type \in {"mRNA", "RNA"}
            /\ Value(attrs[2], K_ID) = fnT
            /\ Value(attrs[2], K_Parent) = fn
            /\ \A k \in 3..Len(stdout) :
                   /\ stdout[k].type \in {"exon", "CDS"} \cup UTRTypes
                   /\ Has(attrs[k], K_Parent)
                   /\ Value(attrs[k], K_Parent) = fnT
                   /\ stdout[k].type = "CDS" =>
                          Value(attrs[k], K_ID) = fn \o <<45, 80>>
            /\ \A k \in 1..Len(stdout) :
                   Has(attrs[k], K_Parent) =>
                       \E j \in 1..(k - 1) :
                           Value(attrs[j], K_ID) = Value(attrs[k], K_Parent)

\* C8's case: a record of two exons, each with a CDS segment, has been printed
C8_Witness ==
    /\ Expanded
    /\ stdout[2].type = "mRNA"
    /\ Len(OfType(stdout, {"CDS"})) = 2
    /\ Len(OfType(stdout, {"exon"})) = 2

---------------------------------------------------------------------------
(* The claims about exons and CDS segments *)

\* the exon lists of line are sorted ascending by position, every exon has
\* start <= end, and the exons do not overlap
AscendingInput(line) ==
    /\ Len(line.exonStarts) = Len(line.exonEnds)
    /\ \A i \in 1..Len(line.exonStarts) : line.exonStarts[i] <= line.exonEnds[i]
    /\ \A i \in 1..(Len(line.exonStarts) - 1) :
           line.exonEnds[i] < line.exonStarts[i + 1]

\* the positions of the i-th exon of the input (i from 1)
ExonSpan(line, i) ==
    Min(line.exonStarts[i], line.exonEnds[i])..Max(line.exonStarts[i], line.exonEnds[i])

\* feature f is the i-th exon of the input: it has that exon's two coordinates
IsInputExon(f, line, i) ==
    f.type = "exon" /\ {f.start, f.end} = {line.exonStarts[i], line.exonEnds[i]}

\* the ID that ends in E<k>
ExonID(line, k) == line.featureName \o <<45, 84, 45, 69>> \o Str(k)

IDOf(f) == Value(ParseAttributes(f.attributes), K_ID)

\* C1: for a coding record of two or more exons, sorted ascending and not
\* overlapping, on either strand: every CDS segment lies within exactly one
\* exon, and the positions the segments cover are exactly the positions of
\* [min(cdsStart,cdsEnd), max(cdsStart,cdsEnd)] that lie in an exon.
C1_CDSCoversOverlap ==
    (/\ Expanded
     /\ sline.cdsStart # None /\ sline.cdsEnd # None
     /\ sline.exonCount >= 2
     /\ AscendingInput(sline)) =>
        LET cs == Min(sline.cdsStart[1], sline.cdsEnd[1])
            ce == Max(sline.cdsStart[1], sline.cdsEnd[1])
            cds == OfType(stdout, {"CDS"})
            n == sline.exonCount
        IN  /\ \A k \in 1..Len(cds) :
                   /\ cds[k].start <= cds[k].end
                   /\ Cardinality({i \in 1..n :
                          Span(cds[k]) \subseteq ExonSpan(sline, i)}) = 1
            /\ UNION {Span(cds[k]) : k \in 1..Len(cds)}
                   = (cs..ce) \cap UNION {ExonSpan(sline, i) : i \in 1..n}

\* C2: a record whose exonCount differs from the length of exonStarts or of
\* exonEnds, or that has exactly one of cdsStart and cdsEnd, raises, and
\* nothing of it is printed.
C2_MalformedRaises ==
    ((Expanded \/ Raised) /\
     (\/ sline.exonCount # Len(sline.exonStarts)
      \/ sline.exonCount # Len(sline.exonEnds)
      \/ (sline.cdsStart = None) # (sline.cdsEnd = None))) =>
        Raised /\ stdout = <<>>

\* C3: for a '-' record of two or more exons sorted ascending, the exon with
\* the ID ending in E<k> is the k-th exon from the highest coordinate down
\* (E1 is the highest exon).
C3_E1IsHighest ==
    (/\ Expanded
     /\ sline.strand = "-"
     /\ sline.exonCount >= 2
     /\ AscendingInput(sline)) =>
        \A j \in 1..Len(stdout) : \A k \in 1..sline.exonCount :
            (stdout[j].type = "exon" /\ IDOf(stdout[j]) = ExonID(sline, k)) =>
                IsInputExon(stdout[j], sline, sline.exonCount + 1 - k)

\* the record R' of C4: the strand changed to '-', both exon lists reversed
Mirror(line) ==
    [line EXCEPT !.strand = "-",
                 !.exonStarts = Reverse(line.exonStarts),
                 !.exonEnds = Reverse(line.exonEnds)]

\* C4: for a '+' record R and its mirror R', the exon features of R' have the
\* same set of (start, end) pairs as those of R, and the exon that is E<k>
\* in R is E<exonCount+1-k> in R'.
C4_MirrorSamePairs ==
    (Expanded /\ sline.strand = "+") =>
        LET n == sline.exonCount
            ex == OfType(stdout, {"exon"})
            mx == OfType(FeatureParser(Mirror(sline)).features, {"exon"})
        IN  /\ {<<ex[j].start, ex[j].end>> : j \in 1..Len(ex)}
                   = {<<mx[j].start, mx[j].end>> : j \in 1..Len(mx)}
            /\ \A j \in 1..Len(ex) : \A k \in 1..n :
                   IDOf(ex[j]) = ExonID(sline, k) =>
                       \E i \in 1..Len(mx) :
                           /\ mx[i].start = ex[j].start
                           /\ mx[i].end = ex[j].end
                           /\ IDOf(mx[i]) = ExonID(sline, n + 1 - k)

---------------------------------------------------------------------------
(* The claim about the order of the output *)

\* feature f lies within the span of exon feature e
WithinFeature(f, e) ==
    /\ Min(e.start, e.end) <= Min(f.start, f.end)
    /\ Max(f.start, f.end) <= Max(e.start, e.end)

\* the CDS segments follow the order of the exon features they lie in
InOverlapOrder(cds, exons) ==
    \E m \in [1..Len(cds) -> 1..Len(exons)] :
        /\ \A j, k \in 1..Len(cds) : j < k => m[j] < m[k]
        /\ \A k \in 1..Len(cds) : WithinFeature(cds[k], exons[m[k]])

\* what C6 says of the groups: one gene, one transcript, exonCount exons, then
\* the CDS segments in exon-overlap order, then the upstream UTR if any, then
\* the downstream UTR if any, and nothing else
GroupsInOrder ==
    LET n == sline.exonCount
        rest == SubSeq(stdout, 3 + n, Len(stdout))
        cds == OfType(rest, {"CDS"})
        utrs == OfType(rest, UTRTypes)
        up == IF sline.strand = "+" THEN "five_prime_UTR" ELSE "three_prime_UTR"
        down == IF sline.strand = "+" THEN "three_prime_UTR" ELSE "five_prime_UTR"
    IN  /\ Len(stdout) >= 2 + n
        /\ stdout[1].type = "gene"
        /\ stdout[2].type \in {"mRNA", "RNA"}
        /\ \A i \in 1..n : stdout[2 + i].type = "exon"
        /\ rest = cds \o utrs
        /\ [k \in 1..Len(utrs) |-> utrs[k].type]
               \in {<<>>, <<up>>, <<down>>, <<up, down>>}
        /\ n >= 2 => InOverlapOrder(cds, SubSeq(stdout, 3, 2 + n))
        /\ (n = 1 /\ stdout[2].type = "mRNA") => Len(cds) = 1

\* C6 as stated: the groups come in order, and the i-th exon feature is the
\* i-th exon of the input, for i = 0..exonCount-1.
C6_ExonsInInputOrder ==
    Expanded =>
        /\ GroupsInOrder
        /\ \A i \in 1..sline.exonCount : IsInputExon(stdout[2 + i], sline, i)

\* C6 amended: the groups come in order, and the exon features come in input
\* index order 0..exonCount-1 on '+' and in reverse input index order
\* exonCount-1..0 on '-' (the order of the strand-oriented lists).
C6_ExonsInStrandOrder ==
    Expanded =>
        /\ GroupsInOrder
        /\ \A i \in 1..sline.exonCount :
               IsInputExon(stdout[2 + i], sline,
                           IF sline.strand = "+" THEN i
                           ELSE sline.exonCount + 1 - i)

\* C6's case: a '-' record of two exons has been printed with a CDS segment
\* and a UTR
C6_Witness ==
    /\ Expanded
    /\ sline.strand = "-"
    /\ sline.exonCount = 2
    /\ sline.exonStarts[1] < sline.exonStarts[2]
    /\ Len(OfType(stdout, {"CDS"})) >= 1
    /\ Len(OfType(stdout, UTRTypes)) >= 1

---------------------------------------------------------------------------
(* The claims about non-coding records *)

\* C11: a printed record with cdsStart and cdsEnd both blank has exactly
\* 2 + exonCount features: one gene, one transcript of type RNA and exonCount
\* exons, so no CDS and no UTR; and the transcript of a printed record has
\* type mRNA exactly when the record has a CDS span, cdsStart and cdsEnd both.
C11_NonCodingFeatures ==
    Expanded =>
        /\ (sline.cdsStart = None /\ sline.cdsEnd = None) =>
               /\ Len(stdout) = 2 + sline.exonCount
               /\ stdout[1].type = "gene"
               /\ stdout[2].type = "RNA"
               /\ \A k \in 3..Len(stdout) : stdout[k].type = "exon"
               /\ OfType(stdout, {"CDS"} \cup UTRTypes) = <<>>
        /\ stdout[2].type \in {"mRNA", "RNA"}
        /\ stdout[2].type = "mRNA" <=>
               (sline.cdsStart # None /\ sline.cdsEnd # None)

\* C11's case: a record of two exons with no CDS column filled has been
\* printed as a gene, an RNA and two exons
C11_Witness ==
    /\ Expanded
    /\ sline.cdsStart = None /\ sline.cdsEnd = None
    /\ sline.exonCount = 2
    /\ Len(stdout) = 4
    /\ stdout[2].type = "RNA"

---------------------------------------------------------------------------
(* The claim about a run over several records *)

RECURSIVE FirstFailing(_, _)
\* the index, from j on, of the first record of file whose expansion raises;
\* Len(file) + 1 when there is none
FirstFailing(file, j) ==
    IF j > Len(file) THEN j
    ELSE IF FeatureParser(file[j]).err # "none" THEN j
    ELSE FirstFailing(file, j + 1)

RECURSIVE BlocksBefore(_, _)
\* the feature blocks of the records 1..n-1 of file, one after the other
BlocksBefore(file, n) ==
    IF n <= 1 THEN <<>>
    ELSE BlocksBefore(file, n - 1) \o FeatureParser(file[n - 1]).features

\* C12: at every point of a run over the header and the records of a file,
\* the output is, in input order, the complete feature blocks of the records
\* read so far, all of which precede the first failing record; once a record
\* has raised, it is the first failing record, the output is the blocks of
\* the records before it, with no feature of the failing record (not the
\* gene and transcript the constructor had already appended) and none of a
\* later record, and the run reads no further line.
C12_HaltsAtFirstFailure ==
    LET k == FirstFailing(flo, 1)
    IN  /\ line_count <= k
        /\ stdout = BlocksBefore(flo, line_count)
        /\ Len(OfType(stdout, {"gene"})) = IF line_count = 0 THEN 0
                                           ELSE line_count - 1
        /\ err # "none" =>
               /\ line_count = k
               /\ sline = flo[k]
               /\ stdout = BlocksBefore(flo, k)
               /\ ~ENABLED Next
        /\ (err = "none" /\ line_count = Len(flo) + 1) => k = Len(flo) + 1

\* C12's case: the second record of three raised at the exon assertion with
\* its gene and transcript in self.features; the first record's block is all
\* of the output, and the third record would have expanded
C12_Witness ==
    /\ Len(flo) = 3
    /\ line_count = 2
    /\ err = "AssertionError"
    /\ Len(features) = 2
    /\ stdout # <<>>
    /\ stdout = FeatureParser(flo[1]).features
    /\ FeatureParser(flo[3]).err = "none"

---------------------------------------------------------------------------
(* The claim about the coordinate columns *)

\* the input shape: gene start <= end, txnStart <= txnEnd, every exon with
\* start <= end, the exon lists sorted ascending, and the CDS, when there is
\* one, with cdsStart <= cdsEnd inside the transcript
WellShaped(line) ==
    /\ line.start <= line.end
    /\ line.txnStart <= line.txnEnd
    /\ AscendingInput(line)
    /\ (line.cdsStart = None) = (line.cdsEnd = None)
    /\ line.cdsStart # None =>
           /\ line.txnStart <= line.cdsStart[1]
           /\ line.cdsStart[1] <= line.cdsEnd[1]
           /\ line.cdsEnd[1] <= line.txnEnd

\* C13: every feature printed for a record of the input shape, on either
\* strand, has its start column <= its end column.
C13_StartNotAfterEnd ==
    (Expanded /\ WellShaped(sline)) =>
        \A k \in 1..Len(stdout) : stdout[k].start <= stdout[k].end

===========================================================================
